---- MODULE Spec2Model ----
(***************************************************************************)
(* A model of the myzod validation engine (src/src/index.ts).              *)
(*                                                                         *)
(* JavaScript values are tagged records, schema nodes are records carrying *)
(* the fields of the corresponding class, and every parse method is an     *)
(* operator that returns either the parsed value or the ValidationError    *)
(* the method throws.  A message is the sequence of the string pieces the  *)
(* code concatenates; a path is the optional list ValidationError.path.    *)
(* The field calls of an outcome counts the parse methods entered to       *)
(* produce it, which makes the order of evaluation observable.             *)
(***************************************************************************)
EXTENDS Integers, Sequences, FiniteSets, TLC

VARIABLES schema, value, result, again, pc

vars == <<schema, value, result, again, pc>>

(***************************************************************************)
(* Bounds of the explored inputs.                                          *)
(***************************************************************************)
MaxLen == 2

\* Key names; for names that are not integers Object.keys lists the keys in
\* insertion (declaration) order.
Keys == {"a", "b"}

(***************************************************************************)
(* JavaScript values.                                                      *)
(***************************************************************************)
Undefined == [t |-> "undefined"]
Null == [t |-> "null"]
Str(s) == [t |-> "string", s |-> s]
Num(n) == [t |-> "number", n |-> n]
Bool(b) == [t |-> "boolean", b |-> b]
Arr(elems) == [t |-> "array", elems |-> elems]
Obj(entries) == [t |-> "object", entries |-> entries]

\* The typeof operator: null, arrays and plain objects are all "object".
TypeofOp(v) == IF v.t \in {"null", "array", "object"} THEN "object" ELSE v.t

typeOf(v) ==
  IF v.t = "null" THEN "null"
  ELSE IF v.t = "array" THEN "array"
  ELSE TypeofOp(v)

\* Object.keys(value): the own keys in insertion order.
ObjectKeys(v) == [i \in 1..Len(v.entries) |-> v.entries[i].k]

KeySet(v) == {v.entries[i].k : i \in 1..Len(v.entries)}

\* value.hasOwnProperty(key)
HasOwnProperty(v, key) == key \in KeySet(v)

\* value[key]: undefined when the key is absent.
GetField(v, key) ==
  IF HasOwnProperty(v, key)
  THEN v.entries[CHOOSE i \in 1..Len(v.entries) : v.entries[i].k = key].v
  ELSE Undefined

\* acc[key] = val on the entry list of an object: an existing key keeps its
\* position, a new key is appended (also when val is undefined).
SetField(entries, key, val) ==
  IF \E i \in 1..Len(entries) : entries[i].k = key
  THEN [i \in 1..Len(entries) |->
          IF entries[i].k = key THEN [k |-> key, v |-> val] ELSE entries[i]]
  ELSE Append(entries, [k |-> key, v |-> val])

\* JSON.stringify of a primitive, as it renders inside a template string.
JSONstringify(v) ==
  IF v.t = "string" THEN "\"" \o v.s \o "\""
  ELSE IF v.t = "number" THEN ToString(v.n)
  ELSE IF v.t = "boolean" THEN (IF v.b THEN "true" ELSE "false")
  ELSE IF v.t = "null" THEN "null"
  ELSE "undefined"

RECURSIVE JoinKeys(_, _)
JoinKeys(ks, i) ==
  IF i > Len(ks) THEN ""
  ELSE (IF i > 1 THEN "," ELSE "") \o "\"" \o ks[i] \o "\"" \o JoinKeys(ks, i + 1)

\* JSON.stringify of an array of key names.
JSONstringifyKeys(ks) == "[" \o JoinKeys(ks, 1) \o "]"

(***************************************************************************)
(* Errors and outcomes.                                                    *)
(***************************************************************************)
NoPath == [has |-> FALSE, segs |-> <<>>]
SomePath(segs) == [has |-> TRUE, segs |-> segs]
KeySeg(k) == [key |-> k]
IdxSeg(i) == [idx |-> i]

\* A parse call that returned val.
Return(val, calls) ==
  [ok |-> TRUE, val |-> val, msg |-> <<>>, path |-> NoPath, calls |-> calls]

\* A parse call that threw new ValidationError(msg, path).
ValidationError(msg, path, calls) ==
  [ok |-> FALSE, val |-> Undefined, msg |-> msg, path |-> path, calls |-> calls]

NoResult == ValidationError(<<>>, NoPath, 0)

RECURSIVE prettyPrintFrom(_, _)
prettyPrintFrom(path, idx) ==
  IF idx > Len(path) THEN ""
  ELSE (IF "idx" \in DOMAIN path[idx] THEN "[" \o ToString(path[idx].idx) \o "]"
        ELSE IF idx = 1 THEN path[idx].key
        ELSE "." \o path[idx].key) \o prettyPrintFrom(path, idx + 1)

prettyPrintPath(path) == prettyPrintFrom(path, 1)

(***************************************************************************)
(* Options.  A field is "unset" when the options object has no such key.   *)
(***************************************************************************)
NoOpts == [allowUnknown |-> "unset", suppressPathErrMsg |-> "unset"]
ObjectOptions(au) == [allowUnknown |-> au, suppressPathErrMsg |-> "unset"]

\* { ...a, ...b }
SpreadOpts(a, b) ==
  [f \in {"allowUnknown", "suppressPathErrMsg"} |->
     IF b[f] # "unset" THEN b[f] ELSE a[f]]

(***************************************************************************)
(* Schema nodes.                                                           *)
(***************************************************************************)
StringType == [kind |-> "string"]
BooleanType == [kind |-> "boolean"]
NumberType == [kind |-> "number"]
UndefinedType == [kind |-> "undefined"]
NullType == [kind |-> "null"]
UnknownType == [kind |-> "unknown"]
LiteralType(lit) == [kind |-> "literal", literal |-> lit]
ObjectType(objectShape, opts) ==
  [kind |-> "object", objectShape |-> objectShape, opts |-> opts]
ArrayType(elem) == [kind |-> "array", schema |-> elem]
UnionType(schemas, strict) ==
  [kind |-> "union", schemas |-> schemas, strict |-> strict]
IntersectionType(left, right) ==
  [kind |-> "intersection", left |-> left, right |-> right]

optional(s) == UnionType(<<s, UndefinedType>>, "unset")
nullable(s) == UnionType(<<s, NullType>>, "unset")

ShapeKeys(s) == [i \in 1..Len(s.objectShape) |-> s.objectShape[i].k]

InSeq(x, seq) == \E i \in 1..Len(seq) : seq[i] = x

\* A variant of JoinErrors that lists the messages last candidate first.
RECURSIVE JoinErrorsReversed(_, _)
JoinErrorsReversed(errors, i) ==
  IF i > Len(errors) THEN <<>>
  ELSE JoinErrorsReversed(errors, i + 1)
       \o (IF i < Len(errors) THEN <<"\n  ">> ELSE <<>>) \o errors[i]

RECURSIVE JoinErrors(_, _)
JoinErrors(errors, i) ==
  IF i > Len(errors) THEN <<>>
  ELSE (IF i > 1 THEN <<"\n  ">> ELSE <<>>) \o errors[i] \o JoinErrors(errors, i + 1)

(***************************************************************************)
(* The parse methods.                                                      *)
(***************************************************************************)
LeafParse(s, v) ==
  IF s.kind = "string" THEN
    IF TypeofOp(v) # "string"
    THEN ValidationError(<<"expected type to be string but got ", typeOf(v)>>, NoPath, 1)
    ELSE Return(v, 1)
  ELSE IF s.kind = "boolean" THEN
    IF TypeofOp(v) # "boolean"
    THEN ValidationError(<<"expected type to be boolean but got ", typeOf(v)>>, NoPath, 1)
    ELSE Return(v, 1)
  ELSE IF s.kind = "number" THEN
    IF TypeofOp(v) # "number"
    THEN ValidationError(<<"expected type to be number but got ", typeOf(v)>>, NoPath, 1)
    ELSE Return(v, 1)
  ELSE IF s.kind = "undefined" THEN
    IF v # Undefined
    THEN ValidationError(<<"expected type to be undefined but got ", typeOf(v)>>, NoPath, 1)
    ELSE Return(v, 1)
  ELSE IF s.kind = "null" THEN
    IF v # Null
    THEN ValidationError(<<"expected type to be null but got ", typeOf(v)>>, NoPath, 1)
    ELSE Return(v, 1)
  ELSE IF s.kind = "literal" THEN
    IF v # s.literal
    THEN ValidationError(
           <<"expected value to be literal ", JSONstringify(s.literal), " but got ",
             IF TypeofOp(v) # "object" THEN JSONstringify(v) ELSE typeOf(v)>>,
           NoPath, 1)
    ELSE Return(v, 1)
  ELSE Return(v, 1)

RECURSIVE Parse(_, _, _)
RECURSIVE ObjectLoop(_, _, _, _, _, _)
RECURSIVE ArrayLoop(_, _, _, _, _)
RECURSIVE UnionLoop(_, _, _, _, _)

\* A variant of ObjectLoop without the presence check of Unknown-typed keys.
ObjectLoopUnknownOptional(s, v, opts, i, acc, calls) ==
  IF i > Len(s.objectShape) THEN Return(Obj(acc), calls)
  ELSE
    LET key == s.objectShape[i].k
        keySchema == s.objectShape[i].schema
        r == IF keySchema.kind = "object"
             THEN Parse(keySchema, GetField(v, key),
                        [opts EXCEPT !.suppressPathErrMsg = "true"])
             ELSE IF keySchema.kind = "array"
             THEN Parse(keySchema, GetField(v, key),
                        [NoOpts EXCEPT !.suppressPathErrMsg = "true"])
             ELSE Parse(keySchema, GetField(v, key), NoOpts)
    IN IF r.ok
       THEN ObjectLoop(s, v, opts, i + 1, SetField(acc, key, r.val), calls + r.calls)
       ELSE
         LET path == IF r.path.has THEN <<KeySeg(key)>> \o r.path.segs ELSE <<KeySeg(key)>>
             msg == IF opts.suppressPathErrMsg = "true"
                    THEN r.msg
                    ELSE <<"error parsing object at path: \"", prettyPrintPath(path), "\" - ">>
                         \o r.msg
         IN ValidationError(msg, SomePath(path), calls + r.calls)

\* The body of the for loop of ObjectType.parse from the i-th declared key on;
\* acc is the accumulator's entry list.
ObjectLoop(s, v, opts, i, acc, calls) ==
  IF i > Len(s.objectShape) THEN Return(Obj(acc), calls)
  ELSE
    LET key == s.objectShape[i].k
        keySchema == s.objectShape[i].schema
        r == IF keySchema.kind = "unknown" /\ ~HasOwnProperty(v, key)
             THEN ValidationError(
                    <<"expected key \"", key, "\" of unknown type to be present on object">>,
                    NoPath, 0)
             ELSE IF keySchema.kind = "object"
             THEN Parse(keySchema, GetField(v, key),
                        [opts EXCEPT !.suppressPathErrMsg = "true"])
             ELSE IF keySchema.kind = "array"
             THEN Parse(keySchema, GetField(v, key),
                        [NoOpts EXCEPT !.suppressPathErrMsg = "true"])
             ELSE Parse(keySchema, GetField(v, key), NoOpts)
    IN IF r.ok
       THEN ObjectLoop(s, v, opts, i + 1, SetField(acc, key, r.val), calls + r.calls)
       ELSE
         LET path == IF r.path.has THEN <<KeySeg(key)>> \o r.path.segs ELSE <<KeySeg(key)>>
             msg == IF opts.suppressPathErrMsg = "true"
                    THEN r.msg
                    ELSE <<"error parsing object at path: \"", prettyPrintPath(path), "\" - ">>
                         \o r.msg
         IN ValidationError(msg, SomePath(path), calls + r.calls)

\* A variant of ObjectParse that looks for unexpected keys only after the
\* declared keys have been validated.
ObjectParseChildrenFirst(s, v, optOverrides) ==
  IF TypeofOp(v) # "object"
  THEN ValidationError(<<"expected type to be object but got ", typeOf(v)>>, NoPath, 1)
  ELSE IF v = Null
  THEN ValidationError(<<"expected object but got null">>, NoPath, 1)
  ELSE IF v.t = "array"
  THEN ValidationError(<<"expected type to be regular object but got array">>, NoPath, 1)
  ELSE
    LET keys == ShapeKeys(s)
        opts == SpreadOpts(s.opts, optOverrides)
        illegalKeys == SelectSeq(ObjectKeys(v), LAMBDA x : ~InSeq(x, keys))
        children == ObjectLoop(s, v, opts, 1, v.entries, 1)
    IN IF ~children.ok THEN children
       ELSE IF opts.allowUnknown # "true" /\ Len(illegalKeys) > 0
       THEN ValidationError(
              <<"unexpected keys on object: ", JSONstringifyKeys(illegalKeys)>>,
              NoPath, children.calls)
       ELSE children

ObjectParse(s, v, optOverrides) ==
  IF TypeofOp(v) # "object"
  THEN ValidationError(<<"expected type to be object but got ", typeOf(v)>>, NoPath, 1)
  ELSE IF v = Null
  THEN ValidationError(<<"expected object but got null">>, NoPath, 1)
  ELSE IF v.t = "array"
  THEN ValidationError(<<"expected type to be regular object but got array">>, NoPath, 1)
  ELSE
    LET keys == ShapeKeys(s)
        opts == SpreadOpts(s.opts, optOverrides)
        illegalKeys == SelectSeq(ObjectKeys(v), LAMBDA x : ~InSeq(x, keys))
    IN IF opts.allowUnknown # "true" /\ Len(illegalKeys) > 0
       THEN ValidationError(
              <<"unexpected keys on object: ", JSONstringifyKeys(illegalKeys)>>, NoPath, 1)
       ELSE ObjectLoop(s, v, opts, 1, v.entries, 1)

\* A variant of ArrayLoop that reports the position of an element counted
\* from one.
ArrayLoopOneBased(s, v, opts, idx, calls) ==
  IF idx > Len(v.elems) THEN Return(v, calls)
  ELSE
    LET r == IF s.schema.kind \in {"object", "array"}
             THEN Parse(s.schema, v.elems[idx],
                        [NoOpts EXCEPT !.suppressPathErrMsg = "true"])
             ELSE Parse(s.schema, v.elems[idx], NoOpts)
    IN IF r.ok
       THEN ArrayLoop(s, v, opts, idx + 1, calls + r.calls)
       ELSE
         LET path == IF r.path.has
                     THEN <<IdxSeg(idx)>> \o r.path.segs
                     ELSE <<IdxSeg(idx)>>
             msg == IF opts.suppressPathErrMsg = "true"
                    THEN r.msg
                    ELSE <<"error at ", prettyPrintPath(path), " - ">> \o r.msg
         IN ValidationError(msg, SomePath(path), calls + r.calls)

\* value.forEach of ArrayType.parse from the idx-th element (1-based) on.
ArrayLoop(s, v, opts, idx, calls) ==
  IF idx > Len(v.elems) THEN Return(v, calls)
  ELSE
    LET r == IF s.schema.kind \in {"object", "array"}
             THEN Parse(s.schema, v.elems[idx],
                        [NoOpts EXCEPT !.suppressPathErrMsg = "true"])
             ELSE Parse(s.schema, v.elems[idx], NoOpts)
    IN IF r.ok
       THEN ArrayLoop(s, v, opts, idx + 1, calls + r.calls)
       ELSE
         LET path == IF r.path.has
                     THEN <<IdxSeg(idx - 1)>> \o r.path.segs
                     ELSE <<IdxSeg(idx - 1)>>
             msg == IF opts.suppressPathErrMsg = "true"
                    THEN r.msg
                    ELSE <<"error at ", prettyPrintPath(path), " - ">> \o r.msg
         IN ValidationError(msg, SomePath(path), calls + r.calls)

ArrayParse(s, v, opts) ==
  IF v.t # "array"
  THEN ValidationError(<<"expected an array but got ", typeOf(v)>>, NoPath, 1)
  ELSE ArrayLoop(s, v, opts, 1, 1)

\* A variant of UnionLoop in which a later accepting candidate overrides an
\* earlier one.
UnionLoopLastMatch(s, v, i, errors, calls) ==
  IF i > Len(s.schemas)
  THEN ValidationError(<<"No union satisfied:\n  ">> \o JoinErrors(errors, 1), NoPath, calls)
  ELSE
    LET r == IF s.strict = "false" /\ s.schemas[i].kind = "object"
             THEN Parse(s.schemas[i], v, ObjectOptions("true"))
             ELSE Parse(s.schemas[i], v, NoOpts)
        later == UnionLoop(s, v, i + 1, errors, calls + r.calls)
    IN IF r.ok
       THEN (IF later.ok THEN later ELSE Return(r.val, later.calls))
       ELSE UnionLoop(s, v, i + 1, Append(errors, r.msg), calls + r.calls)

\* The for loop of UnionType.parse from the i-th candidate on.
UnionLoop(s, v, i, errors, calls) ==
  IF i > Len(s.schemas)
  THEN ValidationError(<<"No union satisfied:\n  ">> \o JoinErrors(errors, 1), NoPath, calls)
  ELSE
    LET r == IF s.strict = "false" /\ s.schemas[i].kind = "object"
             THEN Parse(s.schemas[i], v, ObjectOptions("true"))
             ELSE Parse(s.schemas[i], v, NoOpts)
    IN IF r.ok
       THEN Return(r.val, calls + r.calls)
       ELSE UnionLoop(s, v, i + 1, Append(errors, r.msg), calls + r.calls)

UnionParse(s, v) == UnionLoop(s, v, 1, <<>>, 1)

\* A variant of IntersectionParse that validates Object branches as they
\* are, without tolerating unknown keys.
IntersectionParseStrict(s, v) ==
  LET l == Parse(s.left, v, NoOpts)
      r == Parse(s.right, v, NoOpts)
  IN IF ~l.ok THEN ValidationError(l.msg, l.path, 1 + l.calls)
     ELSE IF ~r.ok THEN ValidationError(r.msg, r.path, 1 + l.calls + r.calls)
     ELSE Return(v, 1 + l.calls + r.calls)

IntersectionParse(s, v) ==
  LET branch(b) == IF b.kind = "object"
                   THEN Parse(b, v, ObjectOptions("true"))
                   ELSE Parse(b, v, NoOpts)
      l == branch(s.left)
      r == branch(s.right)
  IN IF ~l.ok THEN ValidationError(l.msg, l.path, 1 + l.calls)
     ELSE IF ~r.ok THEN ValidationError(r.msg, r.path, 1 + l.calls + r.calls)
     ELSE Return(v, 1 + l.calls + r.calls)

Parse(s, v, opts) ==
  IF s.kind = "object" THEN ObjectParse(s, v, opts)
  ELSE IF s.kind = "array" THEN ArrayParse(s, v, opts)
  ELSE IF s.kind = "union" THEN UnionParse(s, v)
  ELSE IF s.kind = "intersection" THEN IntersectionParse(s, v)
  ELSE LeafParse(s, v)

(***************************************************************************)
(* The explored schemas and values.                                        *)
(***************************************************************************)
KeySeqs ==
  {<<>>} \cup {<<k>> : k \in Keys}
         \cup {ks \in Keys \X Keys : ks[1] # ks[2]}

ShortKeySeqs == {<<>>} \cup {<<k>> : k \in Keys}

\* The objects with key sequence ks and field values in X.
EntriesOver(ks, X) ==
  {[i \in 1..Len(ks) |-> [k |-> ks[i], v |-> f[i]]] : f \in [1..Len(ks) -> X]}

ObjectValues(kss, X) == {Obj(e) : e \in UNION {EntriesOver(ks, X) : ks \in kss}}

ArrayValues(X) == {Arr(e) : e \in UNION {[1..n -> X] : n \in 0..MaxLen}}

\* The shapes with key sequence ks and child nodes in X.
ShapesOver(ks, X) ==
  {[i \in 1..Len(ks) |-> [k |-> ks[i], schema |-> f[i]]] : f \in [1..Len(ks) -> X]}

Shapes(kss, X) == UNION {ShapesOver(ks, X) : ks \in kss}

Primitives == {Undefined, Null, Str("x"), Num(1), Bool(TRUE)}
FieldValues == {Undefined, Str("x"), Num(1)}

FlatValues ==
  Primitives \cup ObjectValues(KeySeqs, FieldValues) \cup ArrayValues(FieldValues)

LeafSchemas ==
  {StringType, BooleanType, NumberType, UndefinedType, NullType, UnknownType,
   LiteralType(Str("x"))}
FieldSchemas == {StringType, UndefinedType, UnknownType, optional(UnknownType)}

PlainObjects == {ObjectType(sh, NoOpts) : sh \in Shapes(KeySeqs, FieldSchemas)}
SmallObjects ==
  {ObjectType(sh, NoOpts) : sh \in Shapes(ShortKeySeqs, {StringType, UndefinedType, UnknownType})}

FlatSchemas ==
  LeafSchemas
    \cup PlainObjects
    \cup {ObjectType(sh, ObjectOptions("true")) : sh \in Shapes(KeySeqs, FieldSchemas)}
    \cup {ArrayType(l) : l \in FieldSchemas}
    \cup {UnionType(<<l1, l2>>, "unset") : l1 \in LeafSchemas, l2 \in LeafSchemas}
    \cup {IntersectionType(l1, l2) : l1 \in LeafSchemas, l2 \in LeafSchemas}
    \cup {UnionType(<<o1, o2>>, st) :
            o1 \in PlainObjects, o2 \in SmallObjects, st \in {"unset", "false"}}
    \cup {IntersectionType(o1, o2) : o1 \in PlainObjects, o2 \in SmallObjects}

\* Nested schemas: one or two composite nodes around a small object.
Wrap(c) ==
  {ObjectType(<<[k |-> k, schema |-> c]>>, ObjectOptions(au)) :
     k \in Keys, au \in {"unset", "true", "false"}}
    \cup {ArrayType(c), optional(c), nullable(c), IntersectionType(c, UnknownType)}

NestedSchemas1 == UNION {Wrap(c) : c \in SmallObjects}
NestedSchemas == NestedSchemas1 \cup UNION {Wrap(c) : c \in NestedSchemas1}

WrapValue(v) == {Obj(<<[k |-> k, v |-> v]>>) : k \in Keys} \cup {Arr(<<v>>)}

NestedValues0 == ObjectValues(ShortKeySeqs, FieldValues)
NestedValues1 == UNION {WrapValue(v) : v \in NestedValues0}
NestedValues == NestedValues0 \cup NestedValues1 \cup UNION {WrapValue(v) : v \in NestedValues1}

Inputs == (FlatSchemas \X FlatValues) \cup (NestedSchemas \X NestedValues)

(***************************************************************************)
(* The state machine: a schema is built, validate is called on an input,   *)
(* and the returned value may be validated again.                          *)
(***************************************************************************)
Init ==
  /\ \E in \in Inputs : schema = in[1] /\ value = in[2]
  /\ result = NoResult
  /\ again = NoResult
  /\ pc = "built"

\* schema.parse(value)
Validate ==
  /\ pc = "built"
  /\ result' = Parse(schema, value, NoOpts)
  /\ pc' = "validated"
  /\ UNCHANGED <<schema, value, again>>

\* schema.parse(result) on the value a successful call returned
Revalidate ==
  /\ pc = "validated"
  /\ result.ok
  /\ again' = Parse(schema, result.val, NoOpts)
  /\ pc' = "revalidated"
  /\ UNCHANGED <<schema, value, result>>

Next == Validate \/ Revalidate

Spec == Init /\ [][Next]_vars

(***************************************************************************)
(* Notions the properties are stated in.                                   *)
(***************************************************************************)
Validated == pc # "built"

\* Deep equality of two values: same kind, same keys at every object level,
\* same field values and elements.
RECURSIVE SameValue(_, _)
SameValue(x, y) ==
  IF x.t # y.t THEN FALSE
  ELSE IF x.t = "object"
  THEN /\ KeySet(x) = KeySet(y)
       /\ \A k \in KeySet(x) : SameValue(GetField(x, k), GetField(y, k))
  ELSE IF x.t = "array"
  THEN /\ Len(x.elems) = Len(y.elems)
       /\ \A i \in 1..Len(x.elems) : SameValue(x.elems[i], y.elems[i])
  ELSE x = y

\* What a leaf node accepts, by the runtime tag of the value.
LeafMatches(s, v) ==
  CASE s.kind = "string" -> v.t = "string"
    [] s.kind = "boolean" -> v.t = "boolean"
    [] s.kind = "number" -> v.t = "number"
    [] s.kind = "undefined" -> v.t = "undefined"
    [] s.kind = "null" -> v.t = "null"
    [] s.kind = "literal" -> v = s.literal
    [] s.kind = "unknown" -> TRUE

IsLeaf(s) == s.kind \notin {"object", "array", "union", "intersection"}

\* Schemas made of Object and Array nodes over leaf nodes.
RECURSIVE IsObjectArrayTree(_)
IsObjectArrayTree(s) ==
  IF s.kind = "object"
  THEN \A i \in 1..Len(s.objectShape) : IsObjectArrayTree(s.objectShape[i].schema)
  ELSE IF s.kind = "array" THEN IsObjectArrayTree(s.schema)
  ELSE IsLeaf(s)

ShapeKeySet(s) == {s.objectShape[i].k : i \in 1..Len(s.objectShape)}

\* The allowUnknown setting in effect at an Object node that inherits au.
Effective(s, au) == IF au # "unset" THEN au ELSE s.opts.allowUnknown

\* Acceptance of a value by an Object/Array tree, au being the allowUnknown
\* setting inherited from the enclosing Object node ("unset" if none).
RECURSIVE Accepts(_, _, _)
Accepts(s, v, au) ==
  IF s.kind = "object"
  THEN /\ v.t = "object"
       /\ Effective(s, au) = "true" \/ KeySet(v) \subseteq ShapeKeySet(s)
       /\ \A i \in 1..Len(s.objectShape) :
            LET c == s.objectShape[i].schema
                k == s.objectShape[i].k
            IN /\ c.kind = "unknown" => k \in KeySet(v)
               /\ Accepts(c, GetField(v, k),
                          IF c.kind = "object" THEN Effective(s, au) ELSE "unset")
  ELSE IF s.kind = "array"
  THEN /\ v.t = "array"
       /\ \A i \in 1..Len(v.elems) : Accepts(s.schema, v.elems[i], "unset")
  ELSE LeafMatches(s, v)

\* The node's own check fails (wrong kind of value, or unexpected keys).
FailsItself(s, v, au) ==
  IF s.kind = "object"
  THEN \/ v.t # "object"
       \/ Effective(s, au) # "true" /\ ~(KeySet(v) \subseteq ShapeKeySet(s))
  ELSE IF s.kind = "array" THEN v.t # "array"
  ELSE TRUE

\* The keys and indices from a rejected value down to the first failing
\* location: first declared key in shape order, lowest index.
RECURSIVE FirstFailure(_, _, _)
FirstFailure(s, v, au) ==
  IF FailsItself(s, v, au) THEN <<>>
  ELSE IF s.kind = "object"
  THEN LET inh(c) == IF c.kind = "object" THEN Effective(s, au) ELSE "unset"
           bad(i) == LET c == s.objectShape[i].schema
                         k == s.objectShape[i].k
                     IN \/ c.kind = "unknown" /\ k \notin KeySet(v)
                        \/ ~Accepts(c, GetField(v, k), inh(c))
           i == CHOOSE j \in 1..Len(s.objectShape) :
                  bad(j) /\ \A h \in 1..(j - 1) : ~bad(h)
           c == s.objectShape[i].schema
           k == s.objectShape[i].k
       IN IF c.kind = "unknown" /\ k \notin KeySet(v)
          THEN <<KeySeg(k)>>
          ELSE <<KeySeg(k)>> \o FirstFailure(c, GetField(v, k), inh(c))
  ELSE LET i == CHOOSE j \in 1..Len(v.elems) :
                  /\ ~Accepts(s.schema, v.elems[j], "unset")
                  /\ \A h \in 1..(j - 1) : Accepts(s.schema, v.elems[h], "unset")
       IN <<IdxSeg(i - 1)>> \o FirstFailure(s.schema, v.elems[i], "unset")

PathPrefixes == {"error parsing object at path: \"", "error at "}

\* How many path-prefix wrappers a message contains.
PrefixCount(msg) == Cardinality({i \in 1..Len(msg) : msg[i] \in PathPrefixes})

\* The keys of the value that the shape does not declare, in input order.
ExtraKeys(s, v) == SelectSeq(ObjectKeys(v), LAMBDA k : k \notin ShapeKeySet(s))

\* The outcome of the i-th candidate of the union under validation.
Candidate(i) ==
  IF schema.strict = "false" /\ schema.schemas[i].kind = "object"
  THEN Parse(schema.schemas[i], value, ObjectOptions("true"))
  ELSE Parse(schema.schemas[i], value, NoOpts)

\* The outcome of a branch of the intersection under validation.
Branch(b) ==
  IF b.kind = "object" THEN Parse(b, value, ObjectOptions("true"))
  ELSE Parse(b, value, NoOpts)

\* Where the i-th candidate's message starts in the aggregate message.
RECURSIVE LineStart(_)
LineStart(i) == IF i = 1 THEN 2 ELSE LineStart(i - 1) + Len(Candidate(i - 1).msg) + 1

RECURSIVE SumCalls(_)
SumCalls(n) == IF n = 0 THEN 0 ELSE Candidate(n).calls + SumCalls(n - 1)

\* The loop of the Object node under validation gets to its i-th declared key.
ReachesKey(i) ==
  /\ schema.opts.allowUnknown = "true" \/ ExtraKeys(schema, value) = <<>>
  /\ \A j \in 1..(i - 1) :
       /\ Parse(schema.objectShape[j].schema, GetField(value, schema.objectShape[j].k), NoOpts).ok
       /\ schema.objectShape[j].schema.kind = "unknown"
            => HasOwnProperty(value, schema.objectShape[j].k)

FlatObject(s) ==
  /\ s.kind = "object"
  /\ \A i \in 1..Len(s.objectShape) :
       LET c == s.objectShape[i].schema
       IN IsLeaf(c) \/ (c.kind = "union" /\ \A j \in 1..Len(c.schemas) : IsLeaf(c.schemas[j]))

\* Acceptance of a value by an object of leaves and unions of leaves.
FlatAccepts(s, v, tolerant) ==
  /\ v.t = "object"
  /\ tolerant \/ KeySet(v) \subseteq ShapeKeySet(s)
  /\ \A i \in 1..Len(s.objectShape) :
       LET c == s.objectShape[i].schema
           k == s.objectShape[i].k
       IN IF c.kind = "union"
          THEN \E j \in 1..Len(c.schemas) : LeafMatches(c.schemas[j], GetField(v, k))
          ELSE /\ LeafMatches(c, GetField(v, k))
               /\ c.kind = "unknown" => k \in KeySet(v)

(***************************************************************************)
(* C1: whenever validate succeeds, the returned value is unchanged with    *)
(* respect to the input: the same keys at every object level and the same  *)
(* field values and elements.                                              *)
(***************************************************************************)
C1_ReturnsValueUnchanged ==
  (Validated /\ result.ok) => SameValue(result.val, value)

(***************************************************************************)
(* C2: when allowUnknown is not in effect, Object validate of an input     *)
(* with at least one key absent from the shape fails with the single       *)
(* unexpected-keys error, listing all such keys in input order, without a  *)
(* path and before any child is validated (only the Object node's own      *)
(* parse was entered), whatever the declared keys hold.                    *)
(***************************************************************************)
C2_UnexpectedKeysFirst ==
  (/\ Validated
   /\ schema.kind = "object"
   /\ value.t = "object"
   /\ schema.opts.allowUnknown # "true"
   /\ ExtraKeys(schema, value) # <<>>)
  => /\ ~result.ok
     /\ result.msg = <<"unexpected keys on object: ",
                       JSONstringifyKeys(ExtraKeys(schema, value))>>
     /\ result.path = NoPath
     /\ result.calls = 1

\* An input with an undeclared key whose declared key is missing or invalid.
C2_Witness ==
  /\ Validated
  /\ schema.kind = "object"
  /\ value.t = "object"
  /\ schema.opts.allowUnknown # "true"
  /\ ExtraKeys(schema, value) # <<>>
  /\ \E i \in 1..Len(schema.objectShape) :
       /\ schema.objectShape[i].schema.kind = "string"
       /\ GetField(value, schema.objectShape[i].k).t # "string"
  /\ result.msg[1] = "unexpected keys on object: "

(***************************************************************************)
(* C3: Union validate is ordered and first-match-wins: the outcome is the  *)
(* outcome of the lowest-index candidate that accepts the input, no later  *)
(* candidate is entered, and validate fails exactly when every candidate   *)
(* rejects; with strict explicitly false an Object candidate is tried with *)
(* allowUnknown forced true, every other candidate is validated normally.  *)
(***************************************************************************)
C3_UnionFirstMatchWins ==
  (Validated /\ schema.kind = "union")
  => LET n == Len(schema.schemas)
         accepting == {i \in 1..n : Candidate(i).ok}
     IN /\ result.ok <=> accepting # {}
        /\ accepting # {} =>
             LET first == CHOOSE i \in accepting : \A j \in accepting : i <= j
             IN /\ result.val = Candidate(first).val
                /\ result.calls = 1 + SumCalls(first)
        /\ (\A i \in 1..n : FlatObject(schema.schemas[i])) =>
             (result.ok <=>
                \E i \in 1..n : FlatAccepts(schema.schemas[i], value, schema.strict = "false"))

\* Both candidates accept and would return different values; the union is
\* not strict and the first candidate accepts only because of that.
C3_Witness ==
  /\ Validated
  /\ schema.kind = "union"
  /\ schema.strict = "false"
  /\ schema.schemas[1].kind = "object"
  /\ ~Parse(schema.schemas[1], value, NoOpts).ok
  /\ Candidate(1).ok
  /\ Candidate(2).ok
  /\ Candidate(1).val # Candidate(2).val
  /\ result.ok

(***************************************************************************)
(* C4: when every candidate of a Union rejects the input, the failure      *)
(* message is the header followed by every candidate's failure message,    *)
(* one per line in declared order, and the error carries no path.          *)
(***************************************************************************)
C4_UnionAggregatesFailures ==
  (Validated /\ schema.kind = "union"
     /\ \A i \in 1..Len(schema.schemas) : ~Candidate(i).ok)
  => LET n == Len(schema.schemas)
     IN /\ ~result.ok
        /\ result.path = NoPath
        /\ result.msg[1] = "No union satisfied:\n  "
        /\ \A i \in 1..n :
             /\ SubSeq(result.msg, LineStart(i), LineStart(i) + Len(Candidate(i).msg) - 1)
                  = Candidate(i).msg
             /\ i > 1 => result.msg[LineStart(i) - 1] = "\n  "
        /\ Len(result.msg) = LineStart(n) + Len(Candidate(n).msg) - 1

\* Every candidate rejects, with different messages, one of them with a path.
C4_Witness ==
  /\ Validated
  /\ schema.kind = "union"
  /\ \A i \in 1..Len(schema.schemas) : ~Candidate(i).ok
  /\ Candidate(1).path.has
  /\ Candidate(1).msg # Candidate(2).msg
  /\ ~result.ok

(***************************************************************************)
(* C5: Intersection validate succeeds exactly when both branches accept    *)
(* the input, an Object branch being validated with allowUnknown forced    *)
(* true; on success it returns the input itself; on failure the error is   *)
(* the left branch's if left rejects (right is then not entered), else the *)
(* right branch's.                                                         *)
(***************************************************************************)
C5_IntersectionBothBranches ==
  (Validated /\ schema.kind = "intersection")
  => LET l == Branch(schema.left)
         r == Branch(schema.right)
     IN /\ result.ok <=> (l.ok /\ r.ok)
        /\ result.ok => result.val = value /\ result.calls = 1 + l.calls + r.calls
        /\ ~l.ok => /\ result.msg = l.msg
                    /\ result.path = l.path
                    /\ result.calls = 1 + l.calls
        /\ (l.ok /\ ~r.ok) => /\ result.msg = r.msg
                              /\ result.path = r.path
                              /\ result.calls = 1 + l.calls + r.calls
        /\ (FlatObject(schema.left) /\ FlatObject(schema.right)) =>
             (result.ok <=> /\ FlatAccepts(schema.left, value, TRUE)
                            /\ FlatAccepts(schema.right, value, TRUE))

\* Two object branches accept an input that has a key the left shape does not
\* declare, and the left branch's own result differs from the input.
C5_Witness ==
  /\ Validated
  /\ schema.kind = "intersection"
  /\ schema.left.kind = "object"
  /\ schema.right.kind = "object"
  /\ value.t = "object"
  /\ ExtraKeys(schema.left, value) # <<>>
  /\ Branch(schema.left).ok
  /\ Branch(schema.left).val # value
  /\ result.ok

(***************************************************************************)
(* C6: for a schema of Object and Array nodes over leaf nodes, a failure   *)
(* at a child carries as its path exactly the keys and indices from the    *)
(* root to the first failing location: the first failing declared key in   *)
(* shape order at each object level, the lowest failing index at each      *)
(* array level.                                                            *)
(***************************************************************************)
C6_PathToFirstFailure ==
  (Validated /\ IsObjectArrayTree(schema) /\ ~IsLeaf(schema))
  => /\ result.ok <=> Accepts(schema, value, "unset")
     /\ ~result.ok =>
          IF FailsItself(schema, value, "unset")
          THEN result.path = NoPath
          ELSE result.path = SomePath(FirstFailure(schema, value, "unset"))

\* Two declared keys fail, and the input lists them in the opposite order.
C6_Witness ==
  /\ Validated
  /\ schema.kind = "object"
  /\ IsObjectArrayTree(schema)
  /\ Len(schema.objectShape) = 2
  /\ value.t = "object"
  /\ Len(value.entries) = 2
  /\ value.entries[1].k = schema.objectShape[2].k
  /\ value.entries[2].k = schema.objectShape[1].k
  /\ \A i \in 1..2 :
       ~Accepts(schema.objectShape[i].schema, GetField(value, schema.objectShape[i].k), "unset")
  /\ result.path = SomePath(<<KeySeg(schema.objectShape[1].k)>>)

(***************************************************************************)
(* C7: whenever a top-level validate call on an Object or Array schema     *)
(* fails at a child, the final message contains exactly one path-prefix    *)
(* wrapper, for every nesting of Object, Array, Union and Intersection     *)
(* nodes between the root and the failing node.                            *)
(***************************************************************************)
C7_ExactlyOnePrefix ==
  (Validated /\ schema.kind \in {"object", "array"} /\ ~result.ok /\ result.path.has)
  => PrefixCount(result.msg) = 1

(***************************************************************************)
(* C8: idempotence: validating the value a successful validate returned    *)
(* succeeds again and yields an equal value.                               *)
(***************************************************************************)
C8_Idempotent ==
  pc = "revalidated" => (again.ok /\ SameValue(again.val, result.val))

(***************************************************************************)
(* C9: a declared key whose child is Unknown is required: an input object  *)
(* without that key is rejected, with the required-key error and the key   *)
(* as path when validation reaches that key; an input that has the key,    *)
(* with any value, passes that key; under unknown().optional() an input    *)
(* without the key passes that key.                                        *)
(***************************************************************************)
C9_UnknownKeyRequired ==
  (Validated /\ schema.kind = "object" /\ value.t = "object")
  => \A i \in 1..Len(schema.objectShape) :
       LET c == schema.objectShape[i].schema
           k == schema.objectShape[i].k
           failsHere == ~result.ok /\ result.path.has /\ result.path.segs[1] = KeySeg(k)
       IN /\ (c.kind = "unknown" /\ ~HasOwnProperty(value, k)) =>
               /\ ~result.ok
               /\ ReachesKey(i) =>
                    /\ result.path = SomePath(<<KeySeg(k)>>)
                    /\ result.msg =
                         <<"error parsing object at path: \"", k, "\" - ",
                           "expected key \"", k, "\" of unknown type to be present on object">>
          /\ (c.kind = "unknown" /\ HasOwnProperty(value, k)) => ~failsHere
          /\ c = optional(UnknownType) => ~failsHere

\* The first key is unknown().optional() and absent, the second is Unknown and
\* absent: the first passes, the second is reported.
C9_Witness ==
  /\ Validated
  /\ schema.kind = "object"
  /\ value.t = "object"
  /\ Len(schema.objectShape) = 2
  /\ schema.objectShape[1].schema = optional(UnknownType)
  /\ ~HasOwnProperty(value, schema.objectShape[1].k)
  /\ schema.objectShape[2].schema.kind = "unknown"
  /\ ~HasOwnProperty(value, schema.objectShape[2].k)
  /\ result.path = SomePath(<<KeySeg(schema.objectShape[2].k)>>)

(***************************************************************************)
(* C10: the allowUnknown option in effect at an Object node is threaded    *)
(* to every Object node below it, as a declared key's child or as the      *)
(* element schema of an Array child: with allowUnknown true at the root,   *)
(* no nested object is rejected for unexpected keys.                       *)
(***************************************************************************)
C10_AllowUnknownThreaded ==
  (/\ Validated
   /\ schema.kind = "object"
   /\ IsObjectArrayTree(schema)
   /\ schema.opts.allowUnknown = "true")
  => \A i \in 1..Len(result.msg) : result.msg[i] # "unexpected keys on object: "

====
